---- MODULE Spec2Model ----
(***************************************************************************)
(* The conversational AWS operations agent: the two dialogue controllers   *)
(* (agentcore-runtime/src/agents/enhanced_aws_agent.py, prefix aws_, and   *)
(* agentcore-runtime/src/agents/enhanced_agent.py, prefix enh_) with their *)
(* per-user conversation state, and the calls they make to the MCP client  *)
(* (the Execution Gateway) and to the memory manager (the conversation     *)
(* log).  Python values are modelled as they are: a dict is a function on  *)
(* the set of its keys, a str is a string, None is the value None.         *)
(***************************************************************************)
EXTENDS Naturals, Sequences, FiniteSets, TLC

VARIABLES
    aws_conversation_state,   \* self.conversation_state of enhanced_aws_agent.py
    enh_conversation_state,   \* self.conversation_state of enhanced_agent.py
    turn,                     \* the last turn, as its caller saw it
    fresh_conversation_state, \* a second, never-used enhanced_aws_agent.py agent
    fresh_turn,               \* the last turn of the second agent
    fresh_user,               \* the user whose turns both agents are given
    fresh_after,              \* how the creation before those turns ended
    aws_awaiting,             \* the turns of enhanced_aws_agent.py suspended at an await
    parse_call,               \* the last call of a _parse_intent, and what it returned
    handler_call,             \* the last handle_request of the execution handler
    handler_response          \* what lambda_handler returned for that request

vars == <<aws_conversation_state, enh_conversation_state, turn,
          fresh_conversation_state, fresh_turn, fresh_user, fresh_after,
          aws_awaiting, parse_call, handler_call, handler_response>>

call_vars == <<parse_call, handler_call, handler_response>>

fresh_vars == <<fresh_conversation_state, fresh_turn, fresh_user, fresh_after>>

(***************************************************************************)
(* Python values.                                                          *)
(***************************************************************************)
None == [t |-> "None"]
Str(s) == [t |-> "str", v |-> s]
Dict(d) == [t |-> "dict", v |-> d]
Int(n) == [t |-> "int", v |-> n]
Bool(b) == [t |-> "bool", v |-> b]

EmptyDict == [k \in {} |-> None]

\* bool(v): None, '', {}, 0 and False are falsy
Truthy(x) ==
    CASE x.t = "None" -> FALSE
      [] x.t = "str" -> x.v # ""
      [] x.t = "dict" -> DOMAIN x.v # {}
      [] x.t = "int" -> x.v # 0
      [] x.t = "bool" -> x.v

\* d.get(k, default)
Get(d, k, default) == IF k \in DOMAIN d THEN d[k] ELSE default

\* d[k] = x
Put(d, k, x) == [j \in DOMAIN d \cup {k} |-> IF j = k THEN x ELSE d[j]]

(***************************************************************************)
(* str methods.                                                            *)
(***************************************************************************)
Lowers == "abcdefghijklmnopqrstuvwxyz"
Uppers == "ABCDEFGHIJKLMNOPQRSTUVWXYZ"

CharAt(s, i) == SubSeq(s, i, i)

MapChar(c, from, to) ==
    IF \E i \in 1..Len(from) : CharAt(from, i) = c
    THEN CharAt(to, CHOOSE i \in 1..Len(from) : CharAt(from, i) = c)
    ELSE c

RECURSIVE MapStr(_, _, _)
MapStr(s, from, to) ==
    IF Len(s) = 0 THEN ""
    ELSE MapChar(CharAt(s, 1), from, to) \o MapStr(SubSeq(s, 2, Len(s)), from, to)

\* the user ids and the message contents of the turns
Users == {"default", "u2"}

\* the messages sent to enhanced_aws_agent.py
AwsMessages ==
    {"create ec2", "Create Lambda", "easy", "EASY", "customize",
     "Y", "stop", "Web Server", "install web server", "",
     "ssh login", "test lambda", "monitor", "ssl", "scale", "mysql", "schedule"}

\* the messages sent to the agent and to a never-used agent alike
FreshMessages ==
    {"create ec2", "Create Lambda", "easy", "EASY", "customize",
     "Y", "stop", "Web Server", "install web server", ""}

\* the messages sent to enhanced_agent.py
EnhMessages ==
    {"create ec2", "Create Lambda", "new vpc", "easy", "customize",
     "confirm", "Y", "cancel", "n", "stop", "restart", "list instances", ""}

\* the messages given to the classifiers: every trigger phrase of their pattern
\* tables as a message of its own
TriggerPhrases ==
    {
     "create ec2", "launch instance", "new instance", "create lambda",
     "new function", "create function", "create database", "create rds",
     "create bucket", "new bucket", "install", "set up", "configure",
     "connect", "ssh", "access", "login", "test", "try", "run", "execute",
     "monitor", "alert", "watch", "track", "secure", "ssl", "certificate",
     "https", "scale", "load balancer", "auto scaling", "database", "db",
     "mysql", "postgres", "trigger", "api gateway", "s3 trigger",
     "schedule", "create instance", "new database", "create s3",
     "create vpc", "new vpc", "create load balancer", "create alb",
     "new load balancer", "start", "turn on", "power on", "stop",
     "turn off", "power off", "shut down", "restart", "reboot", "delete",
     "remove", "terminate", "scale up", "scale down", "increase capacity",
     "decrease capacity", "cost", "expensive", "unused", "optimize",
     "save money", "security", "public", "permissions", "vulnerable" }

\* messages with several triggers, with capitals, and with none
ClassifierMessages ==
    TriggerPhrases \cup
    {
     "", "Hello There", "what is the weather", "CREATE RDS",
     "Create Database", "Restart", "stop and create ec2",
     "create bucket with public access", "launch instance to save money",
     "install then create lambda", "create ec2 and create lambda",
     "create lambda and create ec2" }

Messages == AwsMessages \cup EnhMessages \cup ClassifierMessages

ResourceTypes == {"ec2", "lambda", "rds", "s3", "vpc", "alb"}

\* the str methods on the strings of the model, evaluated once
LowerTable == [s \in Messages \cup ResourceTypes |-> MapStr(s, Uppers, Lowers)]
UpperTable == [s \in Messages \cup ResourceTypes |-> MapStr(s, Lowers, Uppers)]
ReplaceSpacesTable ==
    [s \in {LowerTable[m] : m \in Messages} |-> MapStr(s, " ", "_")]

\* s.lower()
Lower(s) == IF s \in DOMAIN LowerTable THEN LowerTable[s] ELSE MapStr(s, Uppers, Lowers)
\* s.upper()
Upper(s) == IF s \in DOMAIN UpperTable THEN UpperTable[s] ELSE MapStr(s, Lowers, Uppers)
\* s.replace(' ', '_')
ReplaceSpaces(s) ==
    IF s \in DOMAIN ReplaceSpacesTable THEN ReplaceSpacesTable[s] ELSE MapStr(s, " ", "_")

\* p in s
Contains(s, p) ==
    \E i \in 1..(Len(s) + 1) :
        /\ i + Len(p) - 1 <= Len(s)
        /\ SubSeq(s, i, i + Len(p) - 1) = p

\* s.startswith(p)
StartsWith(s, p) == Len(p) <= Len(s) /\ SubSeq(s, 1, Len(p)) = p

\* any(pattern in message_lower for pattern in patterns)
AnyIn(patterns, message_lower) ==
    \E i \in 1..Len(patterns) : Contains(message_lower, patterns[i])

\* the first entry of an (insertion-ordered) pattern table with a matching pattern
FirstMatch(table, message_lower) ==
    IF \E i \in 1..Len(table) : AnyIn(table[i][2], message_lower)
    THEN LET i == CHOOSE j \in 1..Len(table) :
                      /\ AnyIn(table[j][2], message_lower)
                      /\ \A k \in 1..(j - 1) : ~AnyIn(table[k][2], message_lower)
         IN  table[i][1]
    ELSE ""

(***************************************************************************)
(* The fixed markers of the reply texts.                                   *)
(***************************************************************************)
CROSS == "(x)"
CHECK == "(ok)"

\* f"{x}"
Fmt(x) ==
    CASE x.t = "str" -> x.v
      [] x.t = "None" -> "None"
      [] x.t = "bool" -> IF x.v THEN "True" ELSE "False"
      [] OTHER -> "?"

(***************************************************************************)
(* The collaborators: what MCPClient.call_tool and                         *)
(* MemoryManager.store_conversation can do when awaited.  A call returns a *)
(* result dict or raises.                                                  *)
(***************************************************************************)
Returns(result) == [raises |-> FALSE, exc |-> "", result |-> result]
Raises(exc) == [raises |-> TRUE, exc |-> exc, result |-> EmptyDict]

GatewayResults ==
    { [success |-> Bool(TRUE), message |-> Str("Created EC2 instance: i-0abc"),
       instance_id |-> Str("i-0abc"), instance_type |-> Str("t3.micro")],
      [success |-> Bool(TRUE)],
      [success |-> Bool(TRUE), message |-> Str("")],
      [success |-> Bool(FALSE), error |-> Str("AccessDenied")],
      [error |-> Str("Resource type not supported")] }

GatewayOutcomes == {Returns(r) : r \in GatewayResults} \cup {Raises("timeout")}

MemoryOutcomes == {Returns(EmptyDict), Raises("memory unavailable")}

\* one awaited call_tool(tool_name, parameters) and how it ended
Call(tool_name, parameters, outcome) ==
    [tool_name |-> tool_name, parameters |-> parameters, outcome |-> outcome]

\* one store_conversation(user_id, text) that returned
Stored(user_id, text) == [user_id |-> user_id, text |-> text]

\* what a handler did: the conversation state it leaves, the str it returns
\* (or the exception it raises), the gateway calls it made and the lines it
\* stored in memory
Eff(cs, reply, calls, logs) ==
    [cs |-> cs, reply |-> reply, exc |-> "", calls |-> calls, logs |-> logs]
Exc(cs, exc, calls, logs) ==
    [cs |-> cs, reply |-> "", exc |-> exc, calls |-> calls, logs |-> logs]

(***************************************************************************)
(* enhanced_aws_agent.py                                                   *)
(***************************************************************************)
aws_create_patterns ==
    << <<"ec2", <<"create ec2", "launch instance", "new instance">> >>,
       <<"lambda", <<"create lambda", "new function", "create function">> >>,
       <<"rds", <<"create database", "create rds">> >>,
       <<"s3", <<"create bucket", "new bucket">> >> >>

aws_next_step_patterns ==
    << <<"install", <<"install", "set up", "configure">> >>,
       <<"connect", <<"connect", "ssh", "access", "login">> >>,
       <<"test", <<"test", "try", "run", "execute">> >>,
       <<"monitor", <<"monitor", "alert", "watch", "track">> >>,
       <<"secure", <<"secure", "ssl", "certificate", "https">> >>,
       <<"scale", <<"scale", "load balancer", "auto scaling">> >>,
       <<"database", <<"database", "db", "mysql", "postgres">> >>,
       <<"trigger", <<"trigger", "api gateway", "s3 trigger", "schedule">> >> >>

\* tests the next-step patterns before the creation patterns
aws_parse_intent_next_step_first(message) ==
    LET message_lower == Lower(message)
        resource_type == FirstMatch(aws_create_patterns, message_lower)
        action_type == FirstMatch(aws_next_step_patterns, message_lower)
    IN  IF action_type # ""
        THEN [type |-> "next_step_action", action_type |-> action_type,
              original_message |-> message]
        ELSE IF resource_type # ""
        THEN [type |-> "create_resource", resource_type |-> resource_type,
              original_message |-> message]
        ELSE [type |-> "query_resources", original_message |-> message]

\* lets a conversation in progress decide: with a session in the conversation
\* state every message is a query
aws_parse_intent_reads_session(message) ==
    LET message_lower == Lower(message)
        resource_type == FirstMatch(aws_create_patterns, message_lower)
        action_type == FirstMatch(aws_next_step_patterns, message_lower)
    IN  IF aws_conversation_state # <<>>
        THEN [type |-> "query_resources", original_message |-> message]
        ELSE IF resource_type # ""
        THEN [type |-> "create_resource", resource_type |-> resource_type,
              original_message |-> message]
        ELSE IF action_type # ""
        THEN [type |-> "next_step_action", action_type |-> action_type,
              original_message |-> message]
        ELSE [type |-> "query_resources", original_message |-> message]

aws_parse_intent(message) ==
    LET message_lower == Lower(message)
        resource_type == FirstMatch(aws_create_patterns, message_lower)
        action_type == FirstMatch(aws_next_step_patterns, message_lower)
    IN  IF resource_type # ""
        THEN [type |-> "create_resource", resource_type |-> resource_type,
              original_message |-> message]
        ELSE IF action_type # ""
        THEN [type |-> "next_step_action", action_type |-> action_type,
              original_message |-> message]
        ELSE [type |-> "query_resources", original_message |-> message]

\* _parse_intent on the messages of the model, evaluated once
aws_parse_intent_table == [m \in Messages |-> aws_parse_intent(m)]

aws_mode_question(resource_type) ==
    "Creating " \o Upper(resource_type) \o " Resource. Choose your setup approach: "
    \o "EASY MODE (30-60 seconds) - Smart defaults based on common use cases. "
    \o "CUSTOMIZE MODE (2-5 minutes) - Full control over all configurations. "
    \o "Which would you prefer? (Type 'easy' or 'customize')"

\* keeps the resource type of the pending record in upper case
aws_handle_resource_creation_upper(cs, intent, user_id) ==
    LET resource_type == Upper(intent.resource_type)
        pending == Dict([resource_type |-> Str(resource_type),
                         original_message |-> Str(intent.original_message)])
    IN  Eff([cs EXCEPT ![user_id] = Put(@, "pending_creation", pending)],
            aws_mode_question(resource_type), <<>>, <<>>)

\* takes Easy mode for granted: sets the mode along with the pending record
aws_handle_resource_creation_sets_mode(cs, intent, user_id) ==
    LET resource_type == intent.resource_type
        pending == Dict([resource_type |-> Str(resource_type),
                         original_message |-> Str(intent.original_message)])
    IN  Eff([cs EXCEPT ![user_id] =
                 Put(Put(Put(@, "pending_creation", pending),
                         "creation_mode", Str("easy")),
                     "creation_resource", Str(resource_type))],
            aws_mode_question(resource_type), <<>>, <<>>)

aws_handle_resource_creation(cs, intent, user_id) ==
    LET resource_type == intent.resource_type
        pending == Dict([resource_type |-> Str(resource_type),
                         original_message |-> Str(intent.original_message)])
    IN  Eff([cs EXCEPT ![user_id] = Put(@, "pending_creation", pending)],
            aws_mode_question(resource_type), <<>>, <<>>)

aws_purpose_questions ==
    [ec2 |-> "What's the purpose? (web_server, database, development, general)",
     lambda |-> "What should it do? (api_endpoint, data_processing, general)",
     rds |-> "Application type? (ecommerce, analytics, development, general)",
     s3 |-> "What to store? (static_website, data_backup, logs, general)"]

\* tests 'pending_creation' in the session instead of the pending record
aws_handle_mode_selection_tests_key(cs, mode, user_id) ==
    IF "pending_creation" \notin DOMAIN cs[user_id]
    THEN Eff(cs, CROSS \o " No pending resource creation found.", <<>>, <<>>)
    ELSE IF ~Truthy(cs[user_id]["pending_creation"])
    THEN Exc(cs, "'NoneType' object is not subscriptable", <<>>, <<>>)
    ELSE LET resource_type == cs[user_id]["pending_creation"].v["resource_type"].v
         IN  Eff([cs EXCEPT ![user_id] =
                      Put(Put(@, "creation_mode", Str(mode)),
                          "creation_resource", Str(resource_type))],
                 (IF mode = "easy" THEN "Easy Mode Selected: "
                                   ELSE "Customize Mode Selected: ")
                 \o resource_type, <<>>, <<>>)

aws_handle_mode_selection(cs, mode, user_id) ==
    LET pending == Get(cs[user_id], "pending_creation", None)
    IN  IF ~Truthy(pending)
        THEN Eff(cs, CROSS \o " No pending resource creation found.", <<>>, <<>>)
        ELSE
        LET resource_type == pending.v["resource_type"].v
            cs1 == [cs EXCEPT ![user_id] =
                        Put(Put(@, "creation_mode", Str(mode)),
                            "creation_resource", Str(resource_type))]
        IN  IF mode = "easy"
            THEN Eff(cs1,
                     "Easy Mode Selected: "
                     \o (IF resource_type \in DOMAIN aws_purpose_questions
                         THEN aws_purpose_questions[resource_type]
                         ELSE "What's the purpose?"),
                     <<>>, <<>>)
            ELSE Eff(cs1,
                     "Customize Mode Selected: Let's configure your "
                     \o resource_type
                     \o " step by step. First, what should we name this resource?",
                     <<>>, <<>>)

\* the summary built like _format_creation_summary of enhanced_agent.py: a
\* field the result lacks is left out
aws_generate_creation_summary_omits_missing(resource_type, result, config) ==
    CHECK \o " " \o Upper(resource_type) \o " CREATED SUCCESSFULLY. "
    \o (IF resource_type = "ec2" /\ "instance_id" \in DOMAIN result
        THEN "Instance ID: " \o Fmt(result["instance_id"]) \o "; "
        ELSE "")
    \o (IF resource_type = "ec2" /\ "instance_type" \in DOMAIN result
        THEN "Instance Type: " \o Fmt(result["instance_type"]) \o "; "
        ELSE "")
    \o (IF resource_type = "lambda" /\ "function_name" \in DOMAIN result
        THEN "Function Name: " \o Fmt(result["function_name"]) \o "; "
        ELSE "")
    \o "Observability Enabled: CloudWatch Logs; CloudWatch Metrics; "
    \o "X-Ray Tracing; AgentCore Memory"

aws_generate_creation_summary(resource_type, result, config) ==
    CHECK \o " " \o Upper(resource_type) \o " CREATED SUCCESSFULLY. "
    \o (IF resource_type = "ec2"
        THEN "Instance Details: Instance ID: "
             \o Fmt(Get(result, "instance_id", Str("N/A")))
             \o "; Instance Type: "
             \o Fmt(Get(result, "instance_type", Str("N/A")))
             \o "; Purpose: " \o Fmt(Get(config, "purpose", Str("general")))
             \o "; Status: Launching; Estimated Cost: ~$8-34/month. "
        ELSE IF resource_type = "lambda"
        THEN "Function Details: Function Name: "
             \o Fmt(Get(result, "function_name", Str("N/A")))
             \o "; Runtime: Python 3.9; Memory: 512MB; Timeout: 60 seconds"
             \o "; Purpose: " \o Fmt(Get(config, "purpose", Str("general")))
             \o "; CloudWatch Log Group: /aws/lambda/"
             \o Fmt(Get(result, "function_name", Str("function"))) \o ". "
        ELSE "")
    \o "Observability Enabled: CloudWatch Logs; CloudWatch Metrics; "
    \o "X-Ray Tracing; AgentCore Memory"

aws_suggest_next_steps(resource_type, result) ==
    IF resource_type = "ec2"
    THEN "NEXT STEPS - What would you like to do? Option 1: Configure the Instance; "
         \o "Option 2: Connect & Access; Option 3: Add More Resources; "
         \o "Option 4: Cost Management"
    ELSE IF resource_type = "lambda"
    THEN "NEXT STEPS - What would you like to do? Option 1: Test the Function; "
         \o "Option 2: Add Triggers; Option 3: Enhance Functionality; "
         \o "Option 4: Integration"
    ELSE "NEXT STEPS - What would you like to do? Common Next Actions: Configure the "
         \o resource_type \o "; Test the " \o resource_type

aws_tool_name(resource_type) ==
    IF resource_type = "ec2"
    THEN "create_" \o resource_type \o "_instance"
    ELSE "create_" \o resource_type \o "_function"

\* the reply, the gateway calls and the stored lines; the conversation state is
\* not touched here
aws_execute_creation(cs, resource_type, config, user_id, gw, mem) ==
    LET call == Call(aws_tool_name(resource_type), config, gw)
        result == gw.result
    IN  IF gw.raises
        THEN Eff(cs, CROSS \o " Error: " \o gw.exc, <<call>>, <<>>)
        ELSE IF Truthy(Get(result, "success", None))
        THEN IF mem.raises
             THEN Eff(cs, CROSS \o " Error: " \o mem.exc, <<call>>, <<>>)
             ELSE Eff(cs,
                      aws_generate_creation_summary(resource_type, result, config)
                      \o "\n\n" \o aws_suggest_next_steps(resource_type, result),
                      <<call>>,
                      <<Stored(user_id, "Created " \o resource_type \o ": "
                                        \o Fmt(Get(result, "message", Str(""))))>>)
        ELSE Eff(cs, CROSS \o " Failed: "
                     \o Fmt(Get(result, "error", Str("Unknown error"))),
                 <<call>>, <<>>)

\* the purpose without lower()
aws_creation_config_no_lower(mode, resource_type, message) ==
    IF mode = "easy"
    THEN [mode |-> Str("easy"), purpose |-> Str(ReplaceSpaces(message))]
    ELSE [mode |-> Str("customize"),
          function_name |-> IF resource_type = "lambda" THEN Str(message) ELSE None,
          instance_type |-> IF resource_type = "ec2" THEN Str("t3.micro") ELSE None]

aws_creation_config(mode, resource_type, message) ==
    IF mode = "easy"
    THEN [mode |-> Str("easy"), purpose |-> Str(ReplaceSpaces(Lower(message)))]
    ELSE [mode |-> Str("customize"),
          function_name |-> IF resource_type = "lambda" THEN Str(message) ELSE None,
          instance_type |-> IF resource_type = "ec2" THEN Str("t3.micro") ELSE None]

\* the state is cleared only when the creation succeeded
aws_handle_creation_config_keeps_failed(cs, message, user_id, gw, mem) ==
    LET mode == cs[user_id]["creation_mode"].v
        resource_type == cs[user_id]["creation_resource"].v
        config == aws_creation_config(mode, resource_type, message)
        result == aws_execute_creation(cs, resource_type, config, user_id, gw, mem)
    IN  IF result.logs # <<>>
        THEN [result EXCEPT !.cs = [cs EXCEPT ![user_id] = EmptyDict]]
        ELSE result

\* the reset written as self.conversation_state = {}: the whole store is emptied
aws_handle_creation_config_clears_store(cs, message, user_id, gw, mem) ==
    LET mode == cs[user_id]["creation_mode"].v
        resource_type == cs[user_id]["creation_resource"].v
        config == aws_creation_config(mode, resource_type, message)
        result == aws_execute_creation(cs, resource_type, config, user_id, gw, mem)
    IN  [result EXCEPT !.cs = <<>>]

aws_handle_creation_config(cs, message, user_id, gw, mem) ==
    LET mode == cs[user_id]["creation_mode"].v
        resource_type == cs[user_id]["creation_resource"].v
        config == aws_creation_config(mode, resource_type, message)
        result == aws_execute_creation(cs, resource_type, config, user_id, gw, mem)
    IN  [result EXCEPT !.cs = [cs EXCEPT ![user_id] = EmptyDict]]

aws_handle_general_query(cs, message, user_id, gw) ==
    LET call == Call("comprehensive_aws_query",
                     [query |-> Str(message), format |-> Str("detailed")], gw)
    IN  IF gw.raises
        THEN Eff(cs, CROSS \o " Error: " \o gw.exc, <<call>>, <<>>)
        ELSE Eff(cs, Fmt(Get(gw.result, "message", Str("No results found."))),
                 <<call>>, <<>>)

aws_handle_installation_request(cs, message, user_id) ==
    IF Contains(Lower(message), "web server")
    THEN Eff(cs, CHECK \o " Installing Web Server. Your web server is now running!",
             <<>>, <<>>)
    ELSE Eff(cs, "I can help install various software. "
                 \o "What specifically would you like to install?", <<>>, <<>>)

aws_handle_connection_request(cs, message, user_id) ==
    IF Contains(Lower(message), "ssh")
    THEN Eff(cs, CHECK \o " SSH Connection Guide. "
                 \o "ssh -i aws-ops-keypair.pem ec2-user@54.123.45.67", <<>>, <<>>)
    ELSE Eff(cs, "I can help you connect to your AWS resources. "
                 \o "Which resource do you want to connect to?", <<>>, <<>>)

aws_handle_test_request(cs, message, user_id) ==
    IF Contains(Lower(message), "lambda")
    THEN Eff(cs, CHECK \o " Testing Lambda Function. Response: Success", <<>>, <<>>)
    ELSE Eff(cs, "I can help test your AWS resources. What would you like to test?",
             <<>>, <<>>)

aws_handle_monitoring_setup(cs, message, user_id) ==
    Eff(cs, CHECK \o " Setting Up Monitoring. "
            \o "What monitoring feature would you like to add next?", <<>>, <<>>)

aws_handle_database_creation(cs, message, user_id) ==
    Eff(cs, CHECK \o " Creating Database for Your Application. "
            \o "What would you like to prepare for the database?", <<>>, <<>>)

\* without the branch of the database action
aws_handle_next_step_action_no_database(cs, intent, user_id, gw) ==
    LET action_type == intent.action_type
        message == intent.original_message
    IN  CASE action_type = "install" ->
                aws_handle_installation_request(cs, message, user_id)
          [] action_type = "connect" ->
                aws_handle_connection_request(cs, message, user_id)
          [] action_type = "test" -> aws_handle_test_request(cs, message, user_id)
          [] action_type = "monitor" ->
                aws_handle_monitoring_setup(cs, message, user_id)
          [] OTHER -> aws_handle_general_query(cs, message, user_id, gw)

aws_handle_next_step_action(cs, intent, user_id, gw) ==
    LET action_type == intent.action_type
        message == intent.original_message
    IN  CASE action_type = "install" ->
                aws_handle_installation_request(cs, message, user_id)
          [] action_type = "connect" ->
                aws_handle_connection_request(cs, message, user_id)
          [] action_type = "test" -> aws_handle_test_request(cs, message, user_id)
          [] action_type = "monitor" ->
                aws_handle_monitoring_setup(cs, message, user_id)
          [] action_type = "database" ->
                aws_handle_database_creation(cs, message, user_id)
          [] OTHER -> aws_handle_general_query(cs, message, user_id, gw)

aws_new_session ==
    [pending_creation |-> None, creation_mode |-> None, creation_resource |-> None]

\* process_message's try body
aws_process_message_body(cs0, message, user_id, gw, mem) ==
    LET cs == IF user_id \notin DOMAIN cs0
              THEN Put(cs0, user_id, aws_new_session)
              ELSE cs0
    IN  IF Lower(message) \in {"easy", "customize"}
        THEN aws_handle_mode_selection(cs, Lower(message), user_id)
        ELSE IF Truthy(Get(cs[user_id], "creation_mode", None))
        THEN aws_handle_creation_config(cs, message, user_id, gw, mem)
        ELSE
        LET intent == aws_parse_intent_table[message]
        IN  IF intent.type = "create_resource"
            THEN aws_handle_resource_creation(cs, intent, user_id)
            ELSE IF intent.type = "next_step_action"
            THEN aws_handle_next_step_action(cs, intent, user_id, gw)
            ELSE aws_handle_general_query(cs, message, user_id, gw)

\* except Exception as e: return f"(x) Error: {str(e)}"
aws_process_message(cs0, message, user_id, gw, mem) ==
    LET r == aws_process_message_body(cs0, message, user_id, gw, mem)
    IN  IF r.exc # ""
        THEN [r EXCEPT !.reply = CROSS \o " Error: " \o r.exc, !.exc = ""]
        ELSE r

(***************************************************************************)
(* enhanced_agent.py                                                       *)
(***************************************************************************)
enh_create_patterns ==
    << <<"ec2", <<"create ec2", "launch instance", "new instance", "create instance">> >>,
       <<"lambda", <<"create lambda", "new function", "create function">> >>,
       <<"rds", <<"create database", "create rds", "new database">> >>,
       <<"s3", <<"create bucket", "new bucket", "create s3">> >>,
       <<"vpc", <<"create vpc", "new vpc">> >>,
       <<"alb", <<"create load balancer", "create alb", "new load balancer">> >> >>

enh_manage_patterns ==
    << <<"start", <<"start", "turn on", "power on">> >>,
       <<"stop", <<"stop", "turn off", "power off", "shut down">> >>,
       <<"restart", <<"restart", "reboot">> >>,
       <<"delete", <<"delete", "remove", "terminate">> >>,
       <<"scale", <<"scale up", "scale down", "increase capacity",
                    "decrease capacity">> >> >>

enh_cost_words == <<"cost", "expensive", "unused", "optimize", "save money">>

enh_security_words == <<"security", "public", "access", "permissions", "vulnerable">>

\* the fallback intent carries message_lower
enh_parse_intent_lower_fallback(message) ==
    LET message_lower == Lower(message)
        resource_type == FirstMatch(enh_create_patterns, message_lower)
        action == FirstMatch(enh_manage_patterns, message_lower)
    IN  IF resource_type # ""
        THEN [type |-> "create_resource", resource_type |-> resource_type,
              original_message |-> message]
        ELSE IF action # ""
        THEN [type |-> "manage_resource", action |-> action,
              original_message |-> message]
        ELSE IF AnyIn(enh_cost_words, message_lower)
        THEN [type |-> "cost_optimization", original_message |-> message]
        ELSE IF AnyIn(enh_security_words, message_lower)
        THEN [type |-> "security_action", original_message |-> message]
        ELSE [type |-> "query_resources", original_message |-> message_lower]

enh_parse_intent(message) ==
    LET message_lower == Lower(message)
        resource_type == FirstMatch(enh_create_patterns, message_lower)
        action == FirstMatch(enh_manage_patterns, message_lower)
    IN  IF resource_type # ""
        THEN [type |-> "create_resource", resource_type |-> resource_type,
              original_message |-> message]
        ELSE IF action # ""
        THEN [type |-> "manage_resource", action |-> action,
              original_message |-> message]
        ELSE IF AnyIn(enh_cost_words, message_lower)
        THEN [type |-> "cost_optimization", original_message |-> message]
        ELSE IF AnyIn(enh_security_words, message_lower)
        THEN [type |-> "security_action", original_message |-> message]
        ELSE [type |-> "query_resources", original_message |-> message]

\* _parse_intent on the messages of the model, evaluated once
enh_parse_intent_table == [m \in Messages |-> enh_parse_intent(m)]

enh_mode_question(resource_type) ==
    "Creating " \o Upper(resource_type) \o " Resource. Choose your setup approach: "
    \o "EASY MODE (30-60 seconds) - Smart defaults based on common use cases. "
    \o "CUSTOMIZE MODE (2-5 minutes) - Full control over all configurations. "
    \o "Which would you prefer? (Type 'easy' or 'customize')"

enh_handle_resource_creation(cs, intent, user_id) ==
    LET resource_type == intent.resource_type
        pending == Dict([resource_type |-> Str(resource_type),
                         original_message |-> Str(intent.original_message)])
    IN  Eff([cs EXCEPT ![user_id] = Put(@, "pending_creation", pending)],
            enh_mode_question(resource_type), <<>>, <<>>)

\* clears the pending confirmation after the call instead of before it
enh_handle_confirmation_clears_late(cs, user_id, confirmed, gw) ==
    LET pending == Get(cs[user_id], "pending_confirmations", None)
    IN  IF ~Truthy(pending)
        THEN Eff(cs, CROSS \o " No pending actions to confirm.", <<>>, <<>>)
        ELSE
        LET cs1 == [cs EXCEPT ![user_id] =
                        Put(@, "pending_confirmations", Dict(EmptyDict))]
        IN  IF confirmed
            THEN LET action == Get(pending.v, "action", None)
                     params == Get(pending.v, "params", Dict(EmptyDict))
                     call == Call(Fmt(action), params.v, gw)
                 IN  IF gw.raises
                     THEN Exc(cs, gw.exc, <<call>>, <<>>)
                     ELSE Eff(cs1,
                              CHECK \o " Action executed: "
                              \o Fmt(Get(gw.result, "message",
                                         Str("Completed successfully"))),
                              <<call>>, <<>>)
            ELSE Eff(cs1, CROSS \o " Action cancelled.", <<>>, <<>>)

enh_handle_confirmation(cs, user_id, confirmed, gw) ==
    LET pending == Get(cs[user_id], "pending_confirmations", None)
    IN  IF ~Truthy(pending)
        THEN Eff(cs, CROSS \o " No pending actions to confirm.", <<>>, <<>>)
        ELSE
        LET cs1 == [cs EXCEPT ![user_id] =
                        Put(@, "pending_confirmations", Dict(EmptyDict))]
        IN  IF confirmed
            THEN LET action == Get(pending.v, "action", None)
                     params == Get(pending.v, "params", Dict(EmptyDict))
                     call == Call(Fmt(action), params.v, gw)
                 IN  IF gw.raises
                     THEN Exc(cs1, gw.exc, <<call>>, <<>>)
                     ELSE Eff(cs1,
                              CHECK \o " Action executed: "
                              \o Fmt(Get(gw.result, "message",
                                         Str("Completed successfully"))),
                              <<call>>, <<>>)
            ELSE Eff(cs1, CROSS \o " Action cancelled.", <<>>, <<>>)

enh_handle_general_query(cs, message, user_id, gw) ==
    LET call == Call("comprehensive_aws_query",
                     [query |-> Str(message), format |-> Str("detailed"),
                      include_costs |-> Bool(TRUE)], gw)
    IN  IF gw.raises
        THEN Eff(cs, CROSS \o " Error processing query: " \o gw.exc, <<call>>, <<>>)
        ELSE Eff(cs, Fmt(Get(gw.result, "message", Str("No results found."))),
                 <<call>>, <<>>)

\* the class with a _handle_resource_management as well
enh_methods_with_management ==
    {"__init__", "process_message", "_parse_intent", "_handle_resource_creation",
     "_handle_mode_selection", "_handle_easy_mode_creation",
     "_handle_customize_mode_creation", "_execute_resource_creation",
     "_format_creation_summary", "_handle_confirmation", "_handle_general_query",
     "_handle_resource_management"}

\* the methods the class EnhancedAWSAgent of enhanced_agent.py defines
enh_methods ==
    {"__init__", "process_message", "_parse_intent", "_handle_resource_creation",
     "_handle_mode_selection", "_handle_easy_mode_creation",
     "_handle_customize_mode_creation", "_execute_resource_creation",
     "_format_creation_summary", "_handle_confirmation", "_handle_general_query"}

\* self.<name> on an instance whose class has no such attribute
AttributeError(name) ==
    "'EnhancedAWSAgent' object has no attribute '" \o name \o "'"

\* the confirmation prompt of a management action: the class does not define
\* this method; it is the handler section 4.2 of the specification describes
enh_handle_resource_management(cs, intent, user_id) ==
    LET pending == Dict([action |-> Str(intent.action),
                         params |-> Dict([message |-> Str(intent.original_message)])])
    IN  Eff([cs EXCEPT ![user_id] = Put(@, "pending_confirmations", pending)],
            "Please confirm: " \o intent.action \o " (" \o intent.original_message
            \o "). Type 'confirm' or 'cancel'.",
            <<>>, <<>>)

enh_new_session ==
    [pending_confirmations |-> Dict(EmptyDict), context |-> Dict(EmptyDict),
     last_action |-> None]

\* compares the message itself, not message.upper(), with the tokens
enh_process_message_body_exact_case(methods, cs0, message, user_id, gw) ==
    LET cs == IF user_id \notin DOMAIN cs0
              THEN Put(cs0, user_id, enh_new_session)
              ELSE cs0
    IN  IF message \in {"CONFIRM", "YES", "Y"}
        THEN enh_handle_confirmation(cs, user_id, TRUE, gw)
        ELSE IF message \in {"CANCEL", "NO", "N"}
        THEN enh_handle_confirmation(cs, user_id, FALSE, gw)
        ELSE
        LET intent == enh_parse_intent_table[message]
        IN  IF intent.type = "create_resource"
            THEN enh_handle_resource_creation(cs, intent, user_id)
            ELSE Exc(cs, AttributeError("_handle_resource_query"), <<>>, <<>>)

\* process_message's try body, for a class that defines `methods`
enh_process_message_body(methods, cs0, message, user_id, gw) ==
    LET cs == IF user_id \notin DOMAIN cs0
              THEN Put(cs0, user_id, enh_new_session)
              ELSE cs0
    IN  IF Upper(message) \in {"CONFIRM", "YES", "Y"}
        THEN enh_handle_confirmation(cs, user_id, TRUE, gw)
        ELSE IF Upper(message) \in {"CANCEL", "NO", "N"}
        THEN enh_handle_confirmation(cs, user_id, FALSE, gw)
        ELSE
        LET intent == enh_parse_intent_table[message]
        IN  CASE intent.type = "create_resource" ->
                    enh_handle_resource_creation(cs, intent, user_id)
              [] intent.type = "manage_resource" ->
                    IF "_handle_resource_management" \in methods
                    THEN enh_handle_resource_management(cs, intent, user_id)
                    ELSE Exc(cs, AttributeError("_handle_resource_management"),
                             <<>>, <<>>)
              [] intent.type = "query_resources" ->
                    Exc(cs, AttributeError("_handle_resource_query"), <<>>, <<>>)
              [] intent.type = "cost_optimization" ->
                    Exc(cs, AttributeError("_handle_cost_optimization"), <<>>, <<>>)
              [] intent.type = "security_action" ->
                    Exc(cs, AttributeError("_handle_security_action"), <<>>, <<>>)
              [] OTHER -> enh_handle_general_query(cs, message, user_id, gw)

\* process_message without its except clause
enh_process_message_propagates(methods, cs0, message, user_id, gw) ==
    enh_process_message_body(methods, cs0, message, user_id, gw)

\* except Exception as e: return f"(x) Sorry, I encountered an error: {str(e)}"
enh_process_message(methods, cs0, message, user_id, gw) ==
    LET r == enh_process_message_body(methods, cs0, message, user_id, gw)
    IN  IF r.exc # ""
        THEN [r EXCEPT !.reply = CROSS \o " Sorry, I encountered an error: " \o r.exc,
                       !.exc = ""]
        ELSE r

(***************************************************************************)
(* The turns.  handle_message hands message.content and the user_id of the *)
(* metadata to process_message and returns its reply.                      *)
(***************************************************************************)
NoTurn ==
    [agent |-> "", user_id |-> "", message |-> "", pre |-> <<>>, reply |-> "",
     exc |-> "", calls |-> <<>>, logs |-> <<>>]

\* what one turn was: the message, the conversation state before it, and what
\* process_message returned (or the exception it raised to its caller) and did
Turn(agent, user_id, message, pre, r) ==
    [agent |-> agent, user_id |-> user_id, message |-> message, pre |-> pre,
     reply |-> r.reply, exc |-> r.exc, calls |-> r.calls, logs |-> r.logs]

\* tool_name = f"create_{resource_type}" of _execute_resource_creation
enh_tool_name(resource_type) == "create_" \o resource_type

(***************************************************************************)
(* mcp-tool-lambda/lambda/enhanced-mcp-handler.py, prefix mcp_: the        *)
(* execution handler behind the gateway.  `failing` is the set of AWS      *)
(* services whose SDK calls raise during the request.                      *)
(***************************************************************************)
\* s.endswith(p)
EndsWith(s, p) == Len(p) <= Len(s) /\ SubSeq(s, Len(s) - Len(p) + 1, Len(s)) = p

\* s.replace(p, '') for a non-empty p
RECURSIVE Remove(_, _)
Remove(s, p) ==
    IF Len(s) = 0 THEN ""
    ELSE IF StartsWith(s, p) THEN Remove(SubSeq(s, Len(p) + 1, Len(s)), p)
    ELSE CharAt(s, 1) \o Remove(SubSeq(s, 2, Len(s)), p)

\* the methods the class EnhancedAWSHandler defines
mcp_methods ==
    {"__init__", "handle_request", "_handle_create_operation", "_create_ec2_instance",
     "_create_lambda_function", "_generate_lambda_code", "_create_lambda_role",
     "_handle_comprehensive_query", "_query_ec2_resources"}

\* self.<name>(...)  for a method the class may not define
mcp_method(name, outcome) ==
    IF name \in mcp_methods THEN outcome
    ELSE Raises("'EnhancedAWSHandler' object has no attribute '" \o name \o "'")

ClientError == "An error occurred (UnauthorizedOperation)"

mcp_ec2_defaults ==
    [web_server |-> "t3.medium", database |-> "m5.large",
     development |-> "t3.small", general |-> "t3.micro"]

mcp_create_ec2_instance(parameters, failing) ==
    LET mode == Get(parameters, "mode", Str("easy"))
        purpose == Get(parameters, "purpose", Str("general"))
        InstanceType ==
            IF mode = Str("easy")
            THEN Str(IF purpose.t = "str" /\ purpose.v \in DOMAIN mcp_ec2_defaults
                     THEN mcp_ec2_defaults[purpose.v]
                     ELSE mcp_ec2_defaults["general"])
            ELSE Get(parameters, "instance_type", Str("t3.micro"))
    IN  IF "ec2" \in failing
        THEN Returns([error |-> Str("Failed to create EC2 instance: " \o ClientError)])
        ELSE Returns([success |-> Bool(TRUE),
                      message |-> Str(CHECK \o " Created EC2 instance: i-0abc"),
                      instance_id |-> Str("i-0abc"),
                      instance_type |-> InstanceType])

\* the role ARN; sts.get_caller_identity is called outside every try
mcp_create_lambda_role(function_name, failing) ==
    IF "sts" \in failing THEN Raises(ClientError)
    ELSE IF "iam" \in failing
    THEN Returns("arn:aws:iam::123456789012:role/lambda-execution-role")
    ELSE Returns("arn:aws:iam::123456789012:role/" \o function_name \o "-role")

mcp_create_lambda_function(parameters, failing) ==
    LET function_name ==
            Fmt(Get(parameters, "function_name", Str("aws-ops-function-YYYYMMDD")))
        role_arn == mcp_create_lambda_role(function_name, failing)
    IN  IF role_arn.raises THEN Raises(role_arn.exc)
        ELSE IF "lambda" \in failing
        THEN Returns([error |-> Str("Failed to create Lambda function: "
                                    \o ClientError)])
        ELSE Returns([success |-> Bool(TRUE),
                      message |-> Str(CHECK \o " Created Lambda function: "
                                      \o function_name),
                      function_arn |-> Str("arn:aws:lambda:function:"
                                           \o function_name)])

\* the routine _handle_create_operation routes a resource type to; '' for the
\* 'not supported' branch
mcp_create_routine(resource_type) ==
    CASE resource_type = "ec2_instance" -> "_create_ec2_instance"
      [] resource_type = "lambda_function" -> "_create_lambda_function"
      [] resource_type = "rds_database" -> "_create_rds_database"
      [] resource_type = "s3_bucket" -> "_create_s3_bucket"
      [] OTHER -> ""

mcp_handle_create_operation(tool_name, parameters, failing) ==
    LET resource_type == Remove(tool_name, "create_")
        routine == mcp_create_routine(resource_type)
    IN  IF routine = ""
        THEN Returns([error |-> Str("Resource type " \o resource_type
                                    \o " not supported")])
        ELSE mcp_method(routine,
                 IF routine = "_create_ec2_instance"
                 THEN mcp_create_ec2_instance(parameters, failing)
                 ELSE mcp_create_lambda_function(parameters, failing))

mcp_query_ec2_resources(query, failing) ==
    IF "ec2" \in failing
    THEN Returns([error |-> Str("Failed to query EC2: " \o ClientError)])
    ELSE Returns([success |-> Bool(TRUE), message |-> Str("Found 1 EC2 instances"),
                  data |-> Str("[i-0abc]")])

mcp_handle_comprehensive_query(parameters, failing) ==
    LET query == Fmt(Get(parameters, "query", Str("")))
    IN  IF Contains(Lower(query), "ec2") \/ Contains(Lower(query), "instance")
        THEN mcp_query_ec2_resources(query, failing)
        ELSE IF Contains(Lower(query), "lambda") \/ Contains(Lower(query), "function")
        THEN mcp_method("_query_lambda_resources", Returns(EmptyDict))
        ELSE mcp_method("_query_general_resources", Returns(EmptyDict))

\* handle_request's try body
mcp_handle_request_body(tool_name, parameters, failing) ==
    IF StartsWith(tool_name, "create_")
    THEN mcp_handle_create_operation(tool_name, parameters, failing)
    ELSE IF StartsWith(tool_name, "manage_")
    THEN mcp_method("_handle_manage_operation", Returns(EmptyDict))
    ELSE IF EndsWith(tool_name, "_read_operations")
    THEN mcp_method("_handle_read_operation", Returns(EmptyDict))
    ELSE IF tool_name = "comprehensive_aws_query"
    THEN mcp_handle_comprehensive_query(parameters, failing)
    ELSE Returns([error |-> Str("Unknown tool: " \o tool_name)])

\* except Exception as e: return {"error": str(e)}
mcp_handle_request(tool_name, parameters, failing) ==
    LET r == mcp_handle_request_body(tool_name, parameters, failing)
    IN  IF r.raises THEN [error |-> Str(r.exc)] ELSE r.result

\* handle_request without its except clause
mcp_handle_request_outcome_propagates(tool_name, parameters, failing) ==
    mcp_handle_request_body(tool_name, parameters, failing)

\* how handle_request ends: the exception of its try body is caught and
\* returned as {"error": str(e)}
mcp_handle_request_outcome(tool_name, parameters, failing) ==
    LET r == mcp_handle_request_body(tool_name, parameters, failing)
    IN  IF r.raises THEN Returns([error |-> Str(r.exc)]) ELSE r

\* json.dumps of a string: quotation mark and reverse solidus are escaped
RECURSIVE JsonEscape(_)
JsonEscape(s) ==
    IF Len(s) = 0 THEN ""
    ELSE (IF CharAt(s, 1) \in {"\"", "\\"} THEN "\\" ELSE "")
         \o CharAt(s, 1) \o JsonEscape(SubSeq(s, 2, Len(s)))

JsonValue(x) ==
    CASE x.t = "str" -> "\"" \o JsonEscape(x.v) \o "\""
      [] x.t = "bool" -> IF x.v THEN "true" ELSE "false"
      [] x.t = "None" -> "null"
      [] OTHER -> "?"

\* the keys of the handler's results in the order the dict literals list them
JsonKeyOrder ==
    <<"success", "message", "instance_id", "instance_type", "function_arn",
      "data", "error">>

RECURSIVE JsonMembers(_, _)
JsonMembers(d, keys) ==
    IF keys = <<>> THEN ""
    ELSE LET rest == JsonMembers(d, Tail(keys))
         IN  IF Head(keys) \notin DOMAIN d THEN rest
             ELSE "\"" \o Head(keys) \o "\": " \o JsonValue(d[Head(keys)])
                  \o (IF rest = "" THEN "" ELSE ", " \o rest)

\* json.dumps(result)
JsonDumps(d) == "{" \o JsonMembers(d, JsonKeyOrder) \o "}"

\* lambda_handler(event, context), with the handler constructed
mcp_lambda_handler(event, failing) ==
    LET tool_name == Get(event, "tool_name", Str("")).v
        parameters == Get(event, "parameters", Dict(EmptyDict)).v
        r == mcp_handle_request_outcome(tool_name, parameters, failing)
    IN  IF r.raises
        THEN [statusCode |-> 500, body |-> JsonDumps([error |-> Str(r.exc)])]
        ELSE [statusCode |-> 200, body |-> JsonDumps(r.result)]

\* the request did not come through lambda_handler
NoResponse == [statusCode |-> 0, body |-> ""]

\* no _parse_intent and no handle_request was called yet
NoParseCall == [agent |-> "", message |-> "", cs |-> <<>>, intent |-> [type |-> ""]]
NoHandlerCall ==
    [tool_name |-> "", parameters |-> EmptyDict, failing |-> {"-"},
     result |-> EmptyDict]

Init ==
    /\ aws_conversation_state = <<>>
    /\ enh_conversation_state = <<>>
    /\ turn = NoTurn
    /\ fresh_conversation_state = <<>>
    /\ fresh_turn = NoTurn
    /\ fresh_user = ""
    /\ fresh_after = ""
    /\ aws_awaiting = <<>>
    /\ parse_call = NoParseCall
    /\ handler_call = NoHandlerCall
    /\ handler_response = NoResponse

\* the turn is taken: the conversation state and what the caller observed
aws_turn_taken(user_id, message, r) ==
    /\ aws_conversation_state' = r.cs
    /\ turn' = Turn("aws", user_id, message, aws_conversation_state, r)
    /\ UNCHANGED <<call_vars, enh_conversation_state, fresh_vars, aws_awaiting>>

enh_turn_taken(user_id, message, r) ==
    /\ enh_conversation_state' = r.cs
    /\ turn' = Turn("enh", user_id, message, enh_conversation_state, r)
    /\ UNCHANGED <<call_vars, aws_conversation_state, fresh_vars, aws_awaiting>>

\* the ways the awaited calls of a turn can end: only the calls the turn makes
\* have an outcome
OutcomesOf(r, outcomes) == IF r = <<>> THEN {CHOOSE o \in outcomes : TRUE} ELSE outcomes

\* a turn of enhanced_aws_agent.py
aws_handle_message(user_id, message) ==
    \E gw \in OutcomesOf(aws_process_message(aws_conversation_state, message, user_id,
                                               Raises("timeout"), Returns(EmptyDict)).calls,
                         GatewayOutcomes) :
        \E mem \in OutcomesOf(aws_process_message(aws_conversation_state, message,
                                                  user_id, gw, Returns(EmptyDict)).logs,
                              MemoryOutcomes) :
            aws_turn_taken(user_id, message,
                           aws_process_message(aws_conversation_state, message,
                                               user_id, gw, mem))

\* a turn of enhanced_agent.py
enh_handle_message(methods, user_id, message) ==
    \E gw \in OutcomesOf(enh_process_message(methods, enh_conversation_state, message,
                                               user_id, Raises("timeout")).calls,
                         GatewayOutcomes) :
        enh_turn_taken(user_id, message,
                       enh_process_message(methods, enh_conversation_state, message,
                                           user_id, gw))

AwsNext ==
    \E user_id \in Users, message \in AwsMessages : aws_handle_message(user_id, message)

EnhNext ==
    \E user_id \in Users, message \in EnhMessages :
        enh_handle_message(enh_methods, user_id, message)

\* enhanced_agent.py with the management handler of the specification
MgmtNext ==
    \E user_id \in Users, message \in EnhMessages :
        enh_handle_message(enh_methods \cup {"_handle_resource_management"},
                           user_id, message)

\* the turn was the wizard's terminal creation call
TerminalCreation(t) ==
    /\ t.agent = "aws"
    /\ t.user_id \in DOMAIN t.pre
    /\ Truthy(Get(t.pre[t.user_id], "creation_mode", None))
    /\ Lower(t.message) \notin {"easy", "customize"}

\* how the creation call of a terminal creation turn ended
CreationEnd(t) ==
    IF t.calls[1].outcome.raises THEN "raised"
    ELSE IF t.logs # <<>> THEN "created"
    ELSE IF Truthy(Get(t.calls[1].outcome.result, "success", None)) THEN "log raised"
    ELSE "failed"

\* from the end of a creation on, the user's messages go to the agent and to a
\* never-used agent alike, and the awaited calls end alike for both
FreshBegin ==
    /\ fresh_user = ""
    /\ TerminalCreation(turn)
    /\ fresh_user' = turn.user_id
    /\ fresh_after' = CreationEnd(turn)
    /\ UNCHANGED <<call_vars, aws_conversation_state, enh_conversation_state, turn,
                   fresh_conversation_state, fresh_turn, aws_awaiting>>

FreshStep(message) ==
    /\ fresh_user # ""
    /\ \E gw \in OutcomesOf(aws_process_message(aws_conversation_state, message,
                                                  fresh_user, Raises("timeout"),
                                                  Returns(EmptyDict)).calls
                              \o aws_process_message(fresh_conversation_state, message,
                                                     fresh_user, Raises("timeout"),
                                                     Returns(EmptyDict)).calls,
                            GatewayOutcomes) :
         \E mem \in MemoryOutcomes :
            LET r == aws_process_message(aws_conversation_state, message, fresh_user,
                                         gw, mem)
                f == aws_process_message(fresh_conversation_state, message, fresh_user,
                                         gw, mem)
            IN  /\ r.logs = <<>> /\ f.logs = <<>> => mem = Returns(EmptyDict)
                /\ aws_conversation_state' = r.cs
                /\ turn' = Turn("aws", fresh_user, message, aws_conversation_state, r)
                /\ fresh_conversation_state' = f.cs
                /\ fresh_turn' = Turn("aws", fresh_user, message,
                                      fresh_conversation_state, f)
                /\ UNCHANGED <<call_vars, enh_conversation_state, fresh_user, fresh_after,
                               aws_awaiting>>

FreshNext ==
    \/ fresh_user = "" /\ AwsNext
    \/ FreshBegin
    \/ \E message \in FreshMessages : FreshStep(message)

(***************************************************************************)
(* The turns of enhanced_aws_agent.py as the event loop runs them.         *)
(* handle_message is a coroutine on the one module-level agent: it runs    *)
(* until it awaits call_tool or store_conversation, and while it is        *)
(* suspended there the loop runs whatever else is ready, a handle_message  *)
(* of the same user included; nothing in the module holds a second message *)
(* of a user back.                                                         *)
(***************************************************************************)
\* the number of turns that can be suspended at the same time
MaxInFlight == 2

\* the user and the messages of the concurrent turns
AsyncUsers == {"default"}
AsyncMessages == {"create ec2", "easy", "Web Server", "stop"}

\* the frame of a turn suspended at `await`: its local variables
Frame(user_id, message, call, creation, resource_type) ==
    [user_id |-> user_id, message |-> message, pre |-> aws_conversation_state,
     tool_name |-> call.tool_name, parameters |-> call.parameters,
     creation |-> creation, resource_type |-> resource_type,
     await |-> "call_tool", gw |-> Returns(EmptyDict)]

RemoveAt(seq, i) == SubSeq(seq, 1, i - 1) \o SubSeq(seq, i + 1, Len(seq))

\* a turn that awaits nothing that suspends: it runs to its return at once
aws_turn_without_await(user_id, message) ==
    LET r == aws_process_message(aws_conversation_state, message, user_id,
                                 Raises("timeout"), Returns(EmptyDict))
    IN  /\ r.calls = <<>>
        /\ aws_conversation_state' = r.cs
        /\ turn' = Turn("aws", user_id, message, aws_conversation_state, r)
        /\ UNCHANGED <<call_vars, enh_conversation_state, fresh_vars, aws_awaiting>>

\* a turn runs up to `await self.mcp_client.call_tool(...)` and is suspended
aws_turn_suspends(user_id, message) ==
    LET cs == IF user_id \notin DOMAIN aws_conversation_state
              THEN Put(aws_conversation_state, user_id, aws_new_session)
              ELSE aws_conversation_state
        r == aws_process_message(aws_conversation_state, message, user_id,
                                 Raises("timeout"), Returns(EmptyDict))
        creation == Truthy(Get(cs[user_id], "creation_mode", None))
    IN  /\ r.calls # <<>>
        /\ Len(aws_awaiting) < MaxInFlight
        /\ aws_awaiting' =
              Append(aws_awaiting,
                     Frame(user_id, message, r.calls[1], creation,
                           IF creation THEN cs[user_id]["creation_resource"].v
                                       ELSE ""))
        /\ aws_conversation_state' = cs
        /\ UNCHANGED <<call_vars, enh_conversation_state, turn, fresh_vars>>

\* the suspended turn returns to its caller: _handle_creation_config clears the
\* session as it is now, a query leaves it alone
aws_turn_returns(i, r) ==
    LET f == aws_awaiting[i]
    IN  /\ aws_conversation_state' =
              IF f.creation
              THEN [aws_conversation_state EXCEPT ![f.user_id] = EmptyDict]
              ELSE aws_conversation_state
        /\ turn' = Turn("aws", f.user_id, f.message, f.pre, r)
        /\ aws_awaiting' = RemoveAt(aws_awaiting, i)
        /\ UNCHANGED <<call_vars, enh_conversation_state, fresh_vars>>

\* the awaited call_tool of a suspended turn ends
aws_call_tool_ends(i, gw) ==
    LET f == aws_awaiting[i]
    IN  /\ f.await = "call_tool"
        /\ IF f.creation /\ ~gw.raises /\ Truthy(Get(gw.result, "success", None))
           THEN /\ aws_awaiting' =
                     [aws_awaiting EXCEPT ![i].await = "store_conversation",
                                          ![i].gw = gw]
                /\ UNCHANGED <<call_vars, aws_conversation_state, enh_conversation_state,
                               turn, fresh_vars>>
           ELSE aws_turn_returns(i,
                    IF f.creation
                    THEN aws_execute_creation(aws_conversation_state, f.resource_type,
                                              f.parameters, f.user_id, gw,
                                              Returns(EmptyDict))
                    ELSE aws_handle_general_query(aws_conversation_state, f.message,
                                                  f.user_id, gw))

\* the awaited store_conversation of a suspended creation ends
aws_store_conversation_ends(i, mem) ==
    LET f == aws_awaiting[i]
    IN  /\ f.await = "store_conversation"
        /\ aws_turn_returns(i, aws_execute_creation(aws_conversation_state,
                                                    f.resource_type, f.parameters,
                                                    f.user_id, f.gw, mem))

AsyncNext ==
    \/ \E user_id \in AsyncUsers, message \in AsyncMessages :
          \/ aws_turn_without_await(user_id, message)
          \/ aws_turn_suspends(user_id, message)
    \/ \E i \in 1..Len(aws_awaiting) :
          \/ \E gw \in GatewayOutcomes : aws_call_tool_ends(i, gw)
          \/ \E mem \in MemoryOutcomes : aws_store_conversation_ends(i, mem)

(***************************************************************************)
(* The classifiers called on their own: _parse_intent of either agent on   *)
(* any message, whatever the conversation state the agent holds by then.   *)
(***************************************************************************)
\* the messages that bring the conversation states about
ClassifySessionMessages == {"create ec2", "easy"}

\* agent._parse_intent(message), called with the conversation state as it is:
\* it reads its argument only and writes nothing
ParseIntent(agent, message) ==
    /\ parse_call' =
          [agent |-> agent, message |-> message,
           cs |-> IF agent = "aws" THEN aws_conversation_state
                                   ELSE enh_conversation_state,
           intent |-> IF agent = "aws" THEN aws_parse_intent_table[message]
                                       ELSE enh_parse_intent_table[message]]
    /\ UNCHANGED <<aws_conversation_state, enh_conversation_state, turn,
                   fresh_vars, aws_awaiting, handler_call, handler_response>>

ClassifyNext ==
    \/ \E agent \in {"aws", "enh"}, message \in ClassifierMessages :
          ParseIntent(agent, message)
    \/ \E message \in ClassifySessionMessages :
          \/ aws_handle_message("default", message)
          \/ enh_handle_message(enh_methods, "default", message)

(***************************************************************************)
(* The execution handler called on its own.                                *)
(***************************************************************************)
\* the tool names the controllers build for a creation
ControllerCreationToolNames ==
    {aws_tool_name(aws_create_patterns[i][1]) : i \in 1..Len(aws_create_patterns)}
    \cup {enh_tool_name(enh_create_patterns[i][1]) : i \in 1..Len(enh_create_patterns)}

\* the tool names, parameter mappings and AWS failures of the requests
HandlerToolNames ==
    ControllerCreationToolNames
    \cup {"create_ec2_instance", "create_lambda_function", "create_rds_database",
          "create_s3_bucket", "comprehensive_aws_query", "manage_ec2",
          "ec2_read_operations", "stop", "unknown_tool", ""}

HandlerParameters ==
    {EmptyDict,
     aws_creation_config("easy", "ec2", "Web Server"),
     aws_creation_config("easy", "ec2", "create ec2"),
     aws_creation_config("customize", "ec2", "Web Server"),
     aws_creation_config("customize", "lambda", "Web Server"),
     [query |-> Str("list instances"), format |-> Str("detailed")],
     [query |-> Str("Lambda functions"), format |-> Str("detailed")],
     [query |-> Str("stop"), format |-> Str("detailed")]}

\* the AWS services whose calls fail during a request
AwsFailures == {{}, {"ec2"}, {"lambda"}, {"iam"}, {"sts"}, {"ec2", "lambda", "iam", "sts"}}

\* handler.handle_request(tool_name, parameters)
HandleRequest(tool_name, parameters, failing) ==
    /\ handler_call' =
          [tool_name |-> tool_name, parameters |-> parameters, failing |-> failing,
           result |-> mcp_handle_request(tool_name, parameters, failing)]
    /\ handler_response' = NoResponse
    /\ UNCHANGED <<aws_conversation_state, enh_conversation_state, turn,
                   fresh_vars, aws_awaiting, parse_call>>

\* the events given to lambda_handler: with both keys, and with keys missing
Events ==
    {[tool_name |-> Str(tool_name), parameters |-> Dict(parameters)] :
        tool_name \in {"create_ec2_instance", "create_lambda_function",
                       "create_rds_database", "create_rds_function",
                       "comprehensive_aws_query", "manage_ec2",
                       "ec2_read_operations", "unknown_tool", ""},
        parameters \in {EmptyDict,
                        aws_creation_config("easy", "ec2", "Web Server"),
                        [query |-> Str("list instances"), format |-> Str("detailed")],
                        [query |-> Str("Lambda functions"),
                         format |-> Str("detailed")]}}
    \cup {EmptyDict, [tool_name |-> Str("comprehensive_aws_query")]}

\* lambda_handler(event, context)
LambdaHandler(event, failing) ==
    /\ handler_call' =
          [tool_name |-> Get(event, "tool_name", Str("")).v,
           parameters |-> Get(event, "parameters", Dict(EmptyDict)).v,
           failing |-> failing,
           result |-> mcp_handle_request(Get(event, "tool_name", Str("")).v,
                                         Get(event, "parameters", Dict(EmptyDict)).v,
                                         failing)]
    /\ handler_response' = mcp_lambda_handler(event, failing)
    /\ UNCHANGED <<aws_conversation_state, enh_conversation_state, turn,
                   fresh_vars, aws_awaiting, parse_call>>

HandlerNext ==
    \/ \E tool_name \in HandlerToolNames, parameters \in HandlerParameters,
          failing \in AwsFailures :
           HandleRequest(tool_name, parameters, failing)
    \/ \E event \in Events, failing \in AwsFailures :
           LambdaHandler(event, failing)

SpecAws == Init /\ [][AwsNext]_vars
SpecHandler == Init /\ [][HandlerNext]_vars
SpecClassify == Init /\ [][ClassifyNext]_vars
SpecAsync == Init /\ [][AsyncNext]_vars
SpecEnh == Init /\ [][EnhNext]_vars
SpecMgmt == Init /\ [][MgmtNext]_vars
SpecFresh == Init /\ [][FreshNext]_vars

(***************************************************************************)
(* What the properties speak about.                                           *)
(***************************************************************************)
ModeTokens == {"easy", "customize"}
ConfirmTokens == {"CONFIRM", "YES", "Y"}
CancelTokens == {"CANCEL", "NO", "N"}

\* session[k] of the user's session in conversation state cs; None when the
\* session or the key is not there
Field(cs, user_id, k) ==
    IF user_id \in DOMAIN cs THEN Get(cs[user_id], k, None) ELSE None

\* the user's session in cs; the session a first message creates when the user
\* has none yet
SessionOf(cs, user_id, new_session) ==
    IF user_id \in DOMAIN cs THEN cs[user_id] ELSE new_session

\* the conversation state the last turn left
Post == IF turn.agent = "aws" THEN aws_conversation_state ELSE enh_conversation_state

PendingCreation(cs, user_id) == Truthy(Field(cs, user_id, "pending_creation"))
PendingConfirmation(cs, user_id) == Truthy(Field(cs, user_id, "pending_confirmations"))
ModeSet(cs, user_id) == Truthy(Field(cs, user_id, "creation_mode"))

\* C1: in a session with pendingCreation set, a turn whose message is a mode
\* token (any letter case) sets mode to the token and resourceType to the pending
\* record's resource type, clears pendingCreation, replies with the first
\* question of the mode and makes no gateway call.
C1_ModeTokenResolvesPendingCreation ==
    (/\ turn.agent = "aws"
     /\ Lower(turn.message) \in ModeTokens
     /\ PendingCreation(turn.pre, turn.user_id))
    => /\ Field(Post, turn.user_id, "creation_mode") = Str(Lower(turn.message))
       /\ Field(Post, turn.user_id, "creation_resource")
            = Field(turn.pre, turn.user_id, "pending_creation").v["resource_type"]
       /\ ~PendingCreation(Post, turn.user_id)
       /\ StartsWith(turn.reply, IF Lower(turn.message) = "easy"
                                 THEN "Easy Mode Selected"
                                 ELSE "Customize Mode Selected")
       /\ turn.calls = <<>>

\* C1 without the clearing of pendingCreation: what the mode token does do
C1_ModeTokenSetsModeAndResource ==
    (/\ turn.agent = "aws"
     /\ Lower(turn.message) \in ModeTokens
     /\ PendingCreation(turn.pre, turn.user_id))
    => /\ Field(Post, turn.user_id, "creation_mode") = Str(Lower(turn.message))
       /\ Field(Post, turn.user_id, "creation_resource")
            = Field(turn.pre, turn.user_id, "pending_creation").v["resource_type"]
       /\ Field(Post, turn.user_id, "pending_creation")
            = Field(turn.pre, turn.user_id, "pending_creation")
       /\ StartsWith(turn.reply, IF Lower(turn.message) = "easy"
                                 THEN "Easy Mode Selected"
                                 ELSE "Customize Mode Selected")
       /\ turn.calls = <<>>

\* a mode token in upper case has resolved a pending creation
C1_Witness ==
    /\ turn.agent = "aws"
    /\ turn.message = "EASY"
    /\ PendingCreation(turn.pre, turn.user_id)
    /\ ModeSet(Post, turn.user_id)

\* C2: a turn whose message is classified as a management intent sets
\* pendingConfirmation with the inferred action, replies with a confirm/cancel
\* prompt and makes no gateway call in that turn.
C2_ManagementAsksConfirmation ==
    (/\ turn.agent = "enh"
     /\ Upper(turn.message) \notin ConfirmTokens \cup CancelTokens
     /\ enh_parse_intent(turn.message).type = "manage_resource")
    => /\ PendingConfirmation(Post, turn.user_id)
       /\ Get(Field(Post, turn.user_id, "pending_confirmations").v, "action", None)
            = Str(enh_parse_intent(turn.message).action)
       /\ Contains(Lower(turn.reply), "confirm")
       /\ Contains(Lower(turn.reply), "cancel")
       /\ turn.calls = <<>>

\* what a turn can read of a session of enhanced_aws_agent.py: every read of
\* the session is a .get, or follows one that found the key
View(cs, user_id) ==
    [pending_creation |-> Field(cs, user_id, "pending_creation"),
     creation_mode |-> Field(cs, user_id, "creation_mode"),
     creation_resource |-> Field(cs, user_id, "creation_resource")]

\* C3: after the terminal creation call of the wizard has returned (success,
\* success:false or exception), the session behaves as the session of a
\* never-used agent: for every following message sequence the replies, the
\* gateway calls, the stored lines and the sessions read the same.
C3_ResetAfterCreation ==
    fresh_user # ""
    => /\ View(aws_conversation_state, fresh_user)
            = View(fresh_conversation_state, fresh_user)
       /\ fresh_turn.agent # ""
            => /\ turn.message = fresh_turn.message
               /\ turn.reply = fresh_turn.reply
               /\ turn.calls = fresh_turn.calls
               /\ turn.logs = fresh_turn.logs

\* after a creation call that raised, 'create ec2' was answered by both agents
\* and the wizard went on
C3_Witness ==
    /\ fresh_after = "raised"
    /\ fresh_turn.message = "Web Server"
    /\ fresh_turn.calls # <<>>
    /\ fresh_turn.calls[1].tool_name = "create_ec2_instance"
    /\ turn.calls = fresh_turn.calls

\* C4: with pendingConfirmation set, a confirm token invokes the gateway with
\* the stored action and params and leaves pendingConfirmation cleared; a cancel
\* token leaves it cleared and makes no gateway call.
C4_PendingConfirmationResolved ==
    (/\ turn.agent = "enh"
     /\ PendingConfirmation(turn.pre, turn.user_id))
    => LET pending == Field(turn.pre, turn.user_id, "pending_confirmations").v
       IN  /\ Upper(turn.message) \in ConfirmTokens
                => /\ Len(turn.calls) = 1
                   /\ Str(turn.calls[1].tool_name) = pending["action"]
                   /\ Dict(turn.calls[1].parameters) = pending["params"]
                   /\ ~PendingConfirmation(Post, turn.user_id)
           /\ Upper(turn.message) \in CancelTokens
                => /\ turn.calls = <<>>
                   /\ ~PendingConfirmation(Post, turn.user_id)

\* a pending confirmation was confirmed and the gateway call raised
C4_Witness ==
    /\ turn.agent = "enh"
    /\ PendingConfirmation(turn.pre, turn.user_id)
    /\ Upper(turn.message) \in ConfirmTokens
    /\ Len(turn.calls) = 1
    /\ turn.calls[1].outcome.raises

\* a pending confirmation was cancelled
C4_WitnessCancel ==
    /\ turn.agent = "enh"
    /\ PendingConfirmation(turn.pre, turn.user_id)
    /\ Upper(turn.message) \in CancelTokens

IntentOf(t) ==
    IF t.agent = "aws" THEN aws_parse_intent(t.message) ELSE enh_parse_intent(t.message)

\* the message of the last turn went to the classifier
Classified(t) ==
    IF t.agent = "aws"
    THEN Lower(t.message) \notin ModeTokens /\ ~ModeSet(t.pre, t.user_id)
    ELSE Upper(t.message) \notin ConfirmTokens \cup CancelTokens

\* C7: from an empty session, a message classified as create_resource for
\* resource type R stores pendingCreation = {resourceType: R, originalMessage:
\* the message}, replies with the choice prompt containing 'EASY MODE' and
\* 'CUSTOMIZE MODE', sets neither mode nor pendingConfirmation and makes no
\* gateway call; 'create lambda' gives R = lambda.
C7_CreationIntentStoresPending ==
    (/\ turn.agent \in {"aws", "enh"}
     /\ Classified(turn)
     /\ ~PendingCreation(turn.pre, turn.user_id)
     /\ ~PendingConfirmation(turn.pre, turn.user_id)
     /\ IntentOf(turn).type = "create_resource")
    => /\ Field(Post, turn.user_id, "pending_creation")
            = Dict([resource_type |-> Str(IntentOf(turn).resource_type),
                    original_message |-> Str(turn.message)])
       /\ Lower(turn.message) = "create lambda"
            => Field(Post, turn.user_id, "pending_creation").v["resource_type"]
                 = Str("lambda")
       /\ Contains(turn.reply, "EASY MODE")
       /\ Contains(turn.reply, "CUSTOMIZE MODE")
       /\ ~ModeSet(Post, turn.user_id)
       /\ ~PendingConfirmation(Post, turn.user_id)
       /\ turn.calls = <<>>

\* 'Create Lambda' came to a session that holds nothing
C7_Witness ==
    /\ turn.agent \in {"aws", "enh"}
    /\ turn.message = "Create Lambda"
    /\ ~PendingCreation(turn.pre, turn.user_id)
    /\ PendingCreation(Post, turn.user_id)

\* C8: in Customize mode the user's answer is part of the configuration passed
\* to the gateway, for every resource type.
C8_CustomizeAnswerInConfiguration ==
    (/\ turn.agent = "aws"
     /\ Field(turn.pre, turn.user_id, "creation_mode") = Str("customize")
     /\ Lower(turn.message) \notin ModeTokens
     /\ turn.calls # <<>>)
    => \E k \in DOMAIN turn.calls[1].parameters :
           turn.calls[1].parameters[k] = Str(turn.message)

\* C9 as stated: in Easy mode the next message that is no mode token causes
\* exactly one gateway creation call carrying mode 'easy' and that message as
\* the purpose.
C9_EasyPurposeIsTheMessage ==
    (/\ turn.agent = "aws"
     /\ Field(turn.pre, turn.user_id, "creation_mode") = Str("easy")
     /\ Lower(turn.message) \notin ModeTokens)
    => /\ Len(turn.calls) = 1
       /\ StartsWith(turn.calls[1].tool_name, "create_")
       /\ turn.calls[1].parameters["mode"] = Str("easy")
       /\ turn.calls[1].parameters["purpose"] = Str(turn.message)

\* C9 as amended: in Easy mode the next message that is no mode token causes
\* exactly one gateway creation call, for the resource type of the session,
\* carrying mode 'easy' and as purpose the message in lower case with every
\* space replaced by an underscore ('Web Server' gives web_server); no question
\* is asked before the call.
C9_EasyPurposeIsTheMessageNormalised ==
    (/\ turn.agent = "aws"
     /\ Field(turn.pre, turn.user_id, "creation_mode") = Str("easy")
     /\ Lower(turn.message) \notin ModeTokens)
    => /\ Len(turn.calls) = 1
       /\ turn.calls[1].tool_name
            = aws_tool_name(Field(turn.pre, turn.user_id, "creation_resource").v)
       /\ StartsWith(turn.calls[1].tool_name, "create_")
       /\ DOMAIN turn.calls[1].parameters = {"mode", "purpose"}
       /\ turn.calls[1].parameters["mode"] = Str("easy")
       /\ turn.calls[1].parameters["purpose"] = Str(ReplaceSpaces(Lower(turn.message)))
       /\ turn.message = "Web Server"
            => turn.calls[1].parameters["purpose"] = Str("web_server")

\* 'Web Server' answered the purpose question of Easy mode
C9_Witness ==
    /\ turn.agent = "aws"
    /\ Field(turn.pre, turn.user_id, "creation_mode") = Str("easy")
    /\ turn.message = "Web Server"
    /\ Len(turn.calls) = 1

\* C10: in every reachable state, for every user, at most one of pendingCreation
\* and pendingConfirmation is active.
C10_AtMostOnePending ==
    \A user_id \in Users :
        /\ ~(PendingCreation(enh_conversation_state, user_id)
             /\ PendingConfirmation(enh_conversation_state, user_id))
        /\ ~(PendingCreation(aws_conversation_state, user_id)
             /\ PendingConfirmation(aws_conversation_state, user_id))

\* a management message came to a session that holds a pending creation
C10_Witness ==
    /\ turn.agent = "enh"
    /\ turn.message = "stop"
    /\ PendingCreation(turn.pre, turn.user_id)
    /\ PendingCreation(Post, turn.user_id)

\* C11: the mode of a session is set if and only if a mode-selection message
\* met a pending creation since the session was last empty: after a turn the
\* mode of the turn's user is set exactly when the turn was a mode token that
\* found a pending creation (or a mode already selected from one), no other
\* turn sets it, the sessions of the other users stay as they were, and a
\* session with the mode set holds the pending creation it was selected for.
C11_ModeSetIffModeSelected ==
    turn.agent = "aws"
    => /\ ModeSet(Post, turn.user_id)
            <=> /\ Lower(turn.message) \in ModeTokens
                /\ \/ PendingCreation(turn.pre, turn.user_id)
                   \/ ModeSet(turn.pre, turn.user_id)
       /\ \A user_id \in Users \ {turn.user_id} :
              /\ user_id \in DOMAIN Post <=> user_id \in DOMAIN turn.pre
              /\ user_id \in DOMAIN Post => Post[user_id] = turn.pre[user_id]
       /\ \A user_id \in Users :
              ModeSet(Post, user_id)
              => /\ PendingCreation(Post, user_id)
                 /\ Field(Post, user_id, "creation_mode").v \in ModeTokens
                 /\ Field(Post, user_id, "creation_resource")
                      = Field(Post, user_id, "pending_creation").v["resource_type"]

\* one user's creation ended and reset that session while the other user's
\* session kept its mode
C11_Witness ==
    /\ TerminalCreation(turn)
    /\ ~ModeSet(Post, turn.user_id)
    /\ \E user_id \in Users \ {turn.user_id} : ModeSet(Post, user_id)

\* the session a first message of a user creates in the agent of turn t
NewSessionOf(t) == IF t.agent = "aws" THEN aws_new_session ELSE enh_new_session

\* the gateway call of turn t raised
GatewayRaised(t) == t.calls # <<>> /\ t.calls[Len(t.calls)].outcome.raises

\* C12: when the gateway raises in a turn other than the wizard's terminal
\* creation call (a confirmed action, a generic query), the reply starts with the
\* error marker and the session after the turn equals the session before it (a
\* raised confirm leaves pendingConfirmation set); the terminal creation call
\* always resets the session.
C12_GatewayExceptionKeepsSession ==
    /\ (turn.agent # "" /\ GatewayRaised(turn) /\ ~TerminalCreation(turn))
       => /\ StartsWith(turn.reply, CROSS)
          /\ SessionOf(Post, turn.user_id, NewSessionOf(turn))
               = SessionOf(turn.pre, turn.user_id, NewSessionOf(turn))
          /\ PendingConfirmation(turn.pre, turn.user_id)
               => PendingConfirmation(Post, turn.user_id)
    /\ TerminalCreation(turn)
       => /\ Post[turn.user_id] = EmptyDict
          /\ GatewayRaised(turn) => StartsWith(turn.reply, CROSS)

\* the gateway call of turn t failed: it raised, or returned a result without
\* success = True
GatewayFailed(t) ==
    /\ t.calls # <<>>
    /\ \/ t.calls[Len(t.calls)].outcome.raises
       \/ Get(t.calls[Len(t.calls)].outcome.result, "success", None) # Bool(TRUE)

\* C13: on every path that invokes the gateway, when the call raises or returns
\* a result without success = true, the reply carries the failure marker and is
\* neither a success reply nor the plain 'No results found.' text.
C13_FailureIsReportedAsFailure ==
    (turn.agent # "" /\ GatewayFailed(turn))
    => /\ Contains(turn.reply, CROSS)
       /\ ~Contains(turn.reply, CHECK)
       /\ turn.reply # "No results found."

\* the words by which a reply can name the action turn t attempted
ActionWords(t) ==
    UNION { {t.calls[i].tool_name}
            \cup (IF StartsWith(t.calls[i].tool_name, "create_")
                  THEN {"creat"} ELSE {})
            \cup (IF t.calls[i].tool_name = "comprehensive_aws_query"
                  THEN {"query"} ELSE {}) : i \in 1..Len(t.calls) }

\* C15: no turn returns an empty reply, whatever the message, the session and
\* the gateway result (a result whose message is '' included), and a failure
\* reply of a turn that called the gateway names the attempted action.
C15_ReplyNeverEmpty ==
    turn.agent # ""
    => /\ turn.reply # ""
       /\ (turn.calls # <<>> /\ StartsWith(turn.reply, CROSS))
            => \E w \in ActionWords(turn) : Contains(Lower(turn.reply), w)

\* C17: every turn that invokes the gateway (a creation that succeeds or fails,
\* a confirmed action, a generic query) appends a summary line to the
\* conversation log of the turn's user.
C17_EveryGatewayCallIsLogged ==
    (turn.agent # "" /\ turn.calls # <<>>)
    => \E i \in 1..Len(turn.logs) : turn.logs[i].user_id = turn.user_id

\* the creation call of turn t returned success
CreationSucceeded(t) ==
    /\ TerminalCreation(t)
    /\ ~t.calls[1].outcome.raises
    /\ Truthy(Get(t.calls[1].outcome.result, "success", None))

\* C18: when the creation call succeeds, the reply is the success reply (the
\* creation summary and the next steps) whether the append to the conversation
\* log returns or raises.
C18_LogFailureKeepsSuccessReply ==
    CreationSucceeded(turn)
    => turn.reply
         = aws_execute_creation(turn.pre,
                                Field(turn.pre, turn.user_id, "creation_resource").v,
                                turn.calls[1].parameters, turn.user_id,
                                turn.calls[1].outcome, Returns(EmptyDict)).reply

\* C14: a turn never propagates an error: for every message, every reachable
\* session and every way the gateway and the log can end (return or raise),
\* process_message returns a reply string to its caller and raises nothing.
C14_TurnNeverRaises ==
    turn.agent # "" => turn.exc = "" /\ turn.reply \in STRING

\* an exception was raised inside the turn and the caller got a reply
C14_Witness ==
    /\ turn.agent = "enh"
    /\ turn.message = "list instances"
    /\ turn.exc = ""
    /\ turn.reply = CROSS \o " Sorry, I encountered an error: "
                          \o AttributeError("_handle_resource_query")

\* C19: in a session with no pending state and no mode, a message classified
\* as query_resources causes one gateway call of 'comprehensive_aws_query'
\* carrying the message, and the reply is the message of the result, or 'No
\* results found.' when the result has none.
C19_QueryDispatch ==
    (/\ turn.agent # ""
     /\ Classified(turn)
     /\ ~PendingCreation(turn.pre, turn.user_id)
     /\ ~PendingConfirmation(turn.pre, turn.user_id)
     /\ ~ModeSet(turn.pre, turn.user_id)
     /\ IntentOf(turn).type = "query_resources")
    => /\ Len(turn.calls) = 1
       /\ turn.calls[1].tool_name = "comprehensive_aws_query"
       /\ turn.calls[1].parameters["query"] = Str(turn.message)
       /\ ~turn.calls[1].outcome.raises
            => turn.reply
                 = (IF "message" \in DOMAIN turn.calls[1].outcome.result
                    THEN turn.calls[1].outcome.result["message"].v
                    ELSE "No results found.")

\* the action types of the next-step patterns, and those of them that
\* _handle_next_step_action gives a handler of their own
ActionTypes ==
    {aws_next_step_patterns[i][1] : i \in 1..Len(aws_next_step_patterns)}
HandledActionTypes == {"install", "connect", "test", "monitor", "database"}

\* the last turn was classified as a next-step action
NextStepTurn(t) ==
    /\ t.agent = "aws"
    /\ Classified(t)
    /\ IntentOf(t).type = "next_step_action"

\* C20 as stated: a message classified as next_step_action, of any of the eight
\* action types, is answered by a canned response of the handler of its action
\* type (no gateway call, the reply does not depend on the gateway), and the
\* session after the turn equals the session before it.
C20_NextStepActionsAreCanned ==
    NextStepTurn(turn)
    => /\ IntentOf(turn).action_type \in ActionTypes
       /\ turn.calls = <<>>
       /\ SessionOf(Post, turn.user_id, aws_new_session)
            = SessionOf(turn.pre, turn.user_id, aws_new_session)

\* C20 as amended: a message classified as next_step_action leaves the session
\* as it was; for the action types install, connect, test, monitor and database
\* the reply is the canned response of the handler of that type and no gateway
\* call is made; for secure, scale and trigger the message goes to the generic
\* query (one 'comprehensive_aws_query' call carrying the message).
C20_NextStepActionsCannedOrQueried ==
    NextStepTurn(turn)
    => /\ IntentOf(turn).action_type \in ActionTypes
       /\ SessionOf(Post, turn.user_id, aws_new_session)
            = SessionOf(turn.pre, turn.user_id, aws_new_session)
       /\ IntentOf(turn).action_type \in HandledActionTypes
            => /\ turn.calls = <<>>
               /\ turn.reply # ""
               /\ \A gw \in GatewayOutcomes :
                      turn.reply
                        = aws_handle_next_step_action(turn.pre, IntentOf(turn),
                                                      turn.user_id, gw).reply
       /\ IntentOf(turn).action_type \notin HandledActionTypes
            => /\ Len(turn.calls) = 1
               /\ turn.calls[1].tool_name = "comprehensive_aws_query"
               /\ turn.calls[1].parameters["query"] = Str(turn.message)

\* a 'trigger' action went to the generic query, whose result had no message
C20_Witness ==
    /\ NextStepTurn(turn)
    /\ IntentOf(turn).action_type = "trigger"
    /\ Len(turn.calls) = 1
    /\ turn.reply = "No results found."

\* two creation calls are in flight for one completed wizard of a user
TwoCreationsOfOneWizard ==
    \E i, j \in 1..Len(aws_awaiting) :
        /\ i < j
        /\ aws_awaiting[i].creation /\ aws_awaiting[j].creation
        /\ aws_awaiting[i].user_id = aws_awaiting[j].user_id
        /\ aws_awaiting[i].pre[aws_awaiting[i].user_id]
             = aws_awaiting[j].pre[aws_awaiting[j].user_id]

\* C16: one in-flight turn per user: no turn of a user starts on the session
\* while an earlier turn of that user is still awaiting its gateway call or its
\* log append; so one completed wizard has one creation call awaiting or made.
C16_OneInFlightTurnPerUser ==
    /\ \A i, j \in 1..Len(aws_awaiting) :
           i # j => aws_awaiting[i].user_id # aws_awaiting[j].user_id
    /\ ~TwoCreationsOfOneWizard

\* the creation patterns of an agent, and the resource types of which a
\* trigger phrase occurs in a message
CreatePatternsOf(agent) ==
    IF agent = "aws" THEN aws_create_patterns ELSE enh_create_patterns

TypesTriggered(agent, message) ==
    {CreatePatternsOf(agent)[i][1] :
        i \in {k \in 1..Len(CreatePatternsOf(agent)) :
                  AnyIn(CreatePatternsOf(agent)[k][2], Lower(message))}}

\* C21: a message that contains a resource-creation trigger phrase is classified
\* as create_resource with the resource type of such a phrase, whatever
\* management, cost, security or next-step keyword it contains as well; 'create
\* database' is create_resource for rds, not the next-step action database.
C21_CreationPatternsFirst ==
    (parse_call.agent # "" /\ TypesTriggered(parse_call.agent, parse_call.message) # {})
    => /\ parse_call.intent.type = "create_resource"
       /\ parse_call.intent.resource_type
            \in TypesTriggered(parse_call.agent, parse_call.message)
       /\ Lower(parse_call.message) = "create database"
            => parse_call.intent.resource_type = "rds"

\* 'Create Database', which holds the next-step keyword 'database', was
\* classified by enhanced_aws_agent.py
C21_Witness ==
    /\ parse_call.agent = "aws"
    /\ parse_call.message = "Create Database"
    /\ AnyIn(<<"database">>, Lower(parse_call.message))
    /\ parse_call.intent.type = "create_resource"

\* no pattern of any category of the agent occurs in the message
MatchesNoPattern(agent, message) ==
    LET tables == IF agent = "aws"
                  THEN <<aws_create_patterns, aws_next_step_patterns>>
                  ELSE <<enh_create_patterns, enh_manage_patterns,
                         << <<"cost", enh_cost_words>> >>,
                         << <<"security", enh_security_words>> >> >>
    IN  \A t \in 1..Len(tables) : FirstMatch(tables[t], Lower(message)) = ""

IntentTypes ==
    {"create_resource", "next_step_action", "manage_resource", "cost_optimization",
     "security_action", "query_resources"}

\* C22: classify returns an intent for every message, the empty one included,
\* the intent carries the message as it was given, and a message that matches no
\* pattern of any category gets the fallback query intent and nothing else.
C22_ClassifierTotal ==
    parse_call.agent # ""
    => /\ parse_call.intent.type \in IntentTypes
       /\ parse_call.intent.original_message = parse_call.message
       /\ MatchesNoPattern(parse_call.agent, parse_call.message)
            => parse_call.intent
                 = [type |-> "query_resources",
                    original_message |-> parse_call.message]

\* a message with capitals that matches nothing was classified
C22_Witness ==
    /\ parse_call.agent = "enh"
    /\ parse_call.message = "Hello There"
    /\ parse_call.intent.type = "query_resources"

C28_ManagementPhraseGivesItsAction ==
    parse_call.agent = "enh"
    => \A i \in 1..Len(enh_manage_patterns) :
          \A j \in 1..Len(enh_manage_patterns[i][2]) :
             parse_call.message = enh_manage_patterns[i][2][j]
             => /\ parse_call.intent.type = "manage_resource"
                /\ parse_call.intent.action = enh_manage_patterns[i][1]

\* C24: for every tool name and parameter mapping the result of
\* handle_request carries a boolean success field and a message field; on an
\* unknown tool, an unsupported resource type and a failed AWS call success is
\* false.
C24_ResultHasSuccessAndMessage ==
    handler_call # NoHandlerCall
    => /\ "success" \in DOMAIN handler_call.result
       /\ handler_call.result["success"].t = "bool"
       /\ "message" \in DOMAIN handler_call.result
       /\ handler_call.result["message"].t = "str"
       /\ "error" \in DOMAIN handler_call.result
            => handler_call.result["success"] = Bool(FALSE)

\* C27: the tool name a controller builds for the creation of a resource type
\* its classifier can return is routed by the handler's create dispatch to a
\* creation routine, never to the 'Resource type ... not supported' error.
C27_CreationToolNamesAreRouted ==
    handler_call.tool_name \in ControllerCreationToolNames
    => /\ mcp_create_routine(Remove(handler_call.tool_name, "create_")) # ""
       /\ ~(/\ "error" \in DOMAIN handler_call.result
            /\ StartsWith(handler_call.result["error"].v, "Resource type "))

\* the fields of the summary of a resource type that are read from the
\* gateway result, with their labels
SummaryFields(resource_type) ==
    CASE resource_type = "ec2" ->
            {<<"instance_id", "Instance ID: ">>, <<"instance_type", "Instance Type: ">>}
      [] resource_type = "lambda" -> {<<"function_name", "Function Name: ">>}
      [] OTHER -> {}

ObservabilityFooter ==
    "Observability Enabled: CloudWatch Logs; CloudWatch Metrics; "
    \o "X-Ray Tracing; AgentCore Memory"

\* the text has, for every field of the list, its label followed by the
\* result's value or by N/A when the result lacks it, and the footer
SummaryComplete(text, resource_type, result) ==
    /\ \A f \in SummaryFields(resource_type) :
          Contains(text, f[2] \o Fmt(Get(result, f[1], Str("N/A"))))
    /\ Contains(text, ObservabilityFooter)

C29_ModeChosenOnce ==
    (/\ turn.agent = "aws"
     /\ ModeSet(turn.pre, turn.user_id)
     /\ ~TerminalCreation(turn))
    => /\ Field(Post, turn.user_id, "creation_mode")
            = Field(turn.pre, turn.user_id, "creation_mode")
       /\ Field(Post, turn.user_id, "creation_resource")
            = Field(turn.pre, turn.user_id, "creation_resource")

\* the test of the priority order that applies first to a turn's message and
\* the session it came to
FirstTest(t) ==
    IF /\ Upper(t.message) \in ConfirmTokens \cup CancelTokens
       /\ PendingConfirmation(t.pre, t.user_id)
    THEN "confirmation"
    ELSE IF Lower(t.message) \in ModeTokens THEN "mode token"
    ELSE IF ModeSet(t.pre, t.user_id) THEN "wizard answer"
    ELSE "classification"

\* C26: the first test that applies decides the turn.  A confirmation token
\* with a confirmation pending resolves it; a mode token selects the mode of
\* the pending creation, or is refused when none is pending, without a gateway
\* call; while the mode is set every other message is the wizard answer: it
\* makes the creation call, never a query, and stores no new pending creation.
C26_FirstTestDecidesTheTurn ==
    turn.agent # ""
    => /\ FirstTest(turn) = "confirmation"
            => ~PendingConfirmation(Post, turn.user_id)
       /\ FirstTest(turn) = "mode token"
            => /\ turn.calls = <<>>
               /\ turn.exc = ""
               /\ IF PendingCreation(turn.pre, turn.user_id)
                  THEN Field(Post, turn.user_id, "creation_mode")
                           = Str(Lower(turn.message))
                  ELSE /\ StartsWith(turn.reply,
                                     CROSS \o " No pending resource creation found")
                       /\ SessionOf(Post, turn.user_id, NewSessionOf(turn))
                            = SessionOf(turn.pre, turn.user_id, NewSessionOf(turn))
       /\ FirstTest(turn) = "wizard answer"
            => /\ Len(turn.calls) = 1
               /\ StartsWith(turn.calls[1].tool_name, "create_")
               /\ Field(Post, turn.user_id, "pending_creation")
                    \in {None, Field(turn.pre, turn.user_id, "pending_creation")}

\* the answers a user gives to the question of the chosen mode
WizardAnswers == {"Web Server", "Create Lambda", "stop"}

\* the turn of one agent on a conversation state, as process_message makes it
ProcessMessage(agent, cs, message, user_id, gw, mem) ==
    IF agent = "aws"
    THEN aws_process_message(cs, message, user_id, gw, mem)
    ELSE enh_process_message(enh_methods, cs, message, user_id, gw)

\* from the conversation state cs of an agent, the user's mode token and one
\* answer end in one creation call for the pending resource type and in the
\* empty session, however the awaited calls end
CompletedBy(agent, cs, user_id, mode, answer) ==
    LET first == ProcessMessage(agent, cs, mode, user_id,
                                Raises("timeout"), Returns(EmptyDict))
        resource_type == Field(cs, user_id, "pending_creation").v["resource_type"].v
    IN  \A gw \in GatewayOutcomes, mem \in MemoryOutcomes :
            LET second == ProcessMessage(agent, first.cs, answer, user_id, gw, mem)
            IN  /\ first.calls = <<>>
                /\ Len(second.calls) = 1
                /\ StartsWith(second.calls[1].tool_name,
                              "create_" \o resource_type)
                /\ ~PendingCreation(second.cs, user_id)
                /\ ~ModeSet(second.cs, user_id)

\* C30: from every reachable state in which a user's session holds a pending
\* creation, each mode token followed by one answer leads to a gateway creation
\* call for the pending resource type and to the empty session.
C30_PendingCreationCanBeCompleted ==
    /\ \A user_id \in Users :
          PendingCreation(aws_conversation_state, user_id)
          => \A mode \in ModeTokens, answer \in WizardAnswers :
                 CompletedBy("aws", aws_conversation_state, user_id, mode, answer)
    /\ \A user_id \in Users :
          PendingCreation(enh_conversation_state, user_id)
          => \A mode \in ModeTokens, answer \in WizardAnswers :
                 CompletedBy("enh", enh_conversation_state, user_id, mode, answer)

\* C31: a turn of user u leaves u with a session entry, removes no entry from
\* the store, adds none but u's, and leaves the session of every other user as
\* it was; this includes the turn that resets u's session after a creation.
C31_SessionIsolation ==
    turn.agent # ""
    => /\ turn.user_id \in DOMAIN Post
       /\ DOMAIN Post = DOMAIN turn.pre \cup {turn.user_id}
       /\ \A u \in DOMAIN turn.pre \ {turn.user_id} : Post[u] = turn.pre[u]

\* a user's creation attempt reset their session while another user's pending
\* creation stayed
C31_Witness ==
    /\ TerminalCreation(turn)
    /\ Post[turn.user_id] = EmptyDict
    /\ \E u \in DOMAIN turn.pre \ {turn.user_id} :
          /\ PendingCreation(turn.pre, u)
          /\ PendingCreation(Post, u)

\* C32: for every event lambda_handler returns statusCode 200 with the JSON
\* text of handle_request's result as body; unknown tool, unsupported resource
\* type, missing routine and failing AWS call are error results in that body,
\* and the statusCode 500 branch is never reached.
C32_ErrorsAreReportedInBand ==
    handler_response # NoResponse
    => /\ handler_response.statusCode = 200
       /\ handler_response.body = JsonDumps(handler_call.result)
       /\ (\/ handler_call.tool_name \in {"unknown_tool", "create_rds_function",
                                          "create_rds_database"}
           \/ handler_call.failing = {"ec2", "lambda", "iam", "sts"})
           => StartsWith(handler_response.body, "{\"error\": ")

\* the event named a routine the class does not define, and the answer was a
\* statusCode 200 whose body carries the AttributeError
C32_Witness ==
    /\ handler_call.tool_name = "create_rds_database"
    /\ handler_response.statusCode = 200
    /\ Contains(handler_response.body, "has no attribute '_create_rds_database'")

====
